---- MODULE Spec2Model ----
(***************************************************************************)
(* Windowed sample builder of bes-models:                                  *)
(* ELM_Classification_Model._preprocess_data                               *)
(* (bes_models_2/elm_classification/train.py).                             *)
(*                                                                         *)
(* One build is one call of _preprocess_data.  The for loop over           *)
(* elm_indices is modelled one iteration per step (ProcessEvent); the      *)
(* label array of the event is read from the data file inside the          *)
(* iteration, so it is an input of that step.  The code after the loop     *)
(* (valid indices, class balancing, shuffle, return) is the step Finish.   *)
(*                                                                         *)
(* Arrays are sequences; numpy indices are 0-based, so element i of an     *)
(* array a is a[i+1] here.  Negative indices wrap as in Python.            *)
(***************************************************************************)
EXTENDS Integers, Sequences, FiniteSets, TLC

(* --------------------------- constants --------------------------------- *)
IndexBufferDefault == 20   \* index_buffer of Data._oversample_data
MinEventLength == 2000     \* UnprocessedData._preprocess_data skips shorter events

(* ---------------------------- bounds ----------------------------------- *)
MaxW == 2            \* signal_window_size ranges over 0..MaxW
MaxL == 2            \* label_look_ahead ranges over 0..MaxL
MaxEvents == 2       \* elm_indices holds 0..MaxEvents events
MaxPre == 6          \* an event has at most MaxPre labels before its first 1
MaxTail == 1         \* and at most MaxTail labels after its first 1
MaxTimeline == 14    \* a build reads at most this many timesteps in all
MaxShuffleLen == 6   \* builds that shuffle have at most this many timesteps
MaxNActive == 4      \* counts given to the balancer alone: 1..MaxNActive
MaxNInactive == 180  \* and 0..MaxNInactive
MaxApplications == 2 \* the balancer alone is applied at most this often
MaxFetchLen == 2     \* items are fetched from datasets of at most this length
MaxIds == 4          \* _get_data: the data file holds 0..MaxIds events, or 100
MaxBatches == 4      \* an epoch has at most this many batches
MaxLoss == 2         \* a batch loss is 0..MaxLoss loss units
MaxEpochs == 3       \* train_loop: args.n_epochs is 0..MaxEpochs
MaxF1 == 2           \* an F1 score is 0..MaxF1 score units
MaxDataLen == 3      \* Data.get_data: an event has 1..MaxDataLen labels
MaxDataEvents == 2   \* and the file holds 0..MaxDataEvents events
MaxBuffer == 1       \* _oversample_data called alone: index_buffer 0..MaxBuffer
MaxTruncateBuffer == 1  \* truncate_buffer is 0..MaxTruncateBuffer

VARIABLES
    signal_window_size,        \* self.signal_window_size (W)
    label_look_ahead,          \* self.label_look_ahead (L)
    oversample_active_elm,     \* argument
    shuffle_indices,           \* argument
    n_elms,                    \* len(elm_indices)
    elm_pos,                   \* number of loop iterations started
    pc,                        \* "loop", "returned", "returned_none", "raised"
    err,                       \* <<exception, line>> raised, <<>> if none
    packaged_signals,          \* None is modelled by packaged_is_none
    packaged_is_none,
    packaged_labels,
    packaged_valid_t0,
    packaged_window_start,
    packaged_valid_t0_indices, \* the emitted sample_indices
    src_labels,                \* history: labels as read, of the packaged events
    last_read,                 \* history: labels as read, of the latest event
    balancer,                  \* the counts of lines 473-506 taken alone
    fetch,                     \* per worker: position and locals of __getitem__
    split,                     \* _get_data: the event lists of line 369-378
    trainer,                   \* _train_epoch / evaluate: the batch losses
    loop,                      \* train_loop of src/train.py: epochs and scores
    data,                      \* Data.get_data of src/src/data.py
    unproc                     \* UnprocessedData._preprocess_data and predict

vars == <<signal_window_size, label_look_ahead, oversample_active_elm,
          shuffle_indices, n_elms, elm_pos, pc, err, packaged_signals,
          packaged_is_none, packaged_labels, packaged_valid_t0,
          packaged_window_start, packaged_valid_t0_indices, src_labels,
          last_read, balancer, fetch, split, trainer, loop, data, unproc>>

\* the variables of the other programs, for the steps that leave them alone
other_programs == <<split, trainer, loop, data, unproc>>

(* ------------------------- sequence helpers ---------------------------- *)
Min2(a, b) == IF a < b THEN a ELSE b
Max2(a, b) == IF a > b THEN a ELSE b

RECURSIVE SumSeq(_)
SumSeq(s) == IF s = <<>> THEN 0 ELSE Head(s) + SumSeq(Tail(s))

RECURSIVE Repeat(_, _)
Repeat(s, k) == IF k <= 0 THEN <<>> ELSE s \o Repeat(s, k - 1)

Const(n, v) == [k \in 1..n |-> v]

\* a[i] of Python/numpy for an integer i: legal iff -len <= i < len
PyIdxOK(a, i) == -Len(a) <= i /\ i < Len(a)
At(a, i) == IF i < 0 THEN a[i + Len(a) + 1] ELSE a[i + 1]

\* bound of a slice a[lo:hi] as Python normalises it
SliceBound(x, n) == IF x < 0 THEN Max2(x + n, 0) ELSE Min2(x, n)

\* a[lo:hi] = v
SetSlice(a, lo, hi, v) ==
    [k \in 1..Len(a) |->
        IF SliceBound(lo, Len(a)) <= k - 1 /\ k - 1 < SliceBound(hi, Len(a))
        THEN v ELSE a[k]]

\* np.count_nonzero
count_nonzero(a) == Cardinality({k \in 1..Len(a) : a[k] /= 0})

(* ----------------------------- inputs ---------------------------------- *)
BinSeqs(n) == UNION {[1..k -> {0, 1}] : k \in 0..n}

\* every 0/1 label array with at most MaxPre labels before the first 1 and
\* at most MaxTail labels after it (arrays without a 1 included)
EventLabels ==
    {Const(p, 0) : p \in 1..MaxPre}
    \cup {Const(p, 0) \o <<1>> \o t : p \in 0..MaxPre, t \in BinSeqs(MaxTail)}

\* signals of the event read in iteration e: one record per timestep
EventSignals(e, n) == [t \in 1..n |-> <<e, t - 1>>]

(* ---------------- per-event code, lines 422-447 ------------------------ *)
\* np.nonzero(labels == 1)[0]
active_elm_indices(labels) == {i \in 0..(Len(labels) - 1) : labels[i + 1] = 1}

\* variant: the last active index is taken instead of the first
active_elm_start_index_Last(labels) ==
    CHOOSE i \in active_elm_indices(labels) :
        \A j \in active_elm_indices(labels) : i >= j

\* active_elm_indices[0], the smallest index
active_elm_start_index(labels) ==
    CHOOSE i \in active_elm_indices(labels) :
        \A j \in active_elm_indices(labels) : i <= j

largest_t0_index_for_pre_elm_period(labels) ==
    active_elm_start_index(labels) - signal_window_size

\* variant: the slice of valid origins starts at 1 instead of 0
valid_t0_FromOne(labels) ==
    SetSlice(Const(Len(labels), 0), 1,
             largest_t0_index_for_pre_elm_period(labels) + 1, 1)

\* valid_t0 after valid_t0[0:largest_t0+1] = 1
valid_t0(labels) ==
    SetSlice(Const(Len(labels), 0), 0,
             largest_t0_index_for_pre_elm_period(labels) + 1, 1)

\* variant: the last extended label is one index early
last_label_for_active_elm_in_pre_elm_signal_Short(labels) ==
    largest_t0_index_for_pre_elm_period(labels)
    + (signal_window_size - 1)
    + label_look_ahead - 1

last_label_for_active_elm_in_pre_elm_signal(labels) ==
    largest_t0_index_for_pre_elm_period(labels)
    + (signal_window_size - 1)
    + label_look_ahead

\* variant: the labels are cut after the last extended one
extended_labels_Truncated(labels) ==
    SubSeq(SetSlice(labels, active_elm_start_index(labels),
                    last_label_for_active_elm_in_pre_elm_signal(labels) + 1, 1),
           1, last_label_for_active_elm_in_pre_elm_signal(labels) + 1)

\* variant: the slice ends one label later
extended_labels_Long(labels) ==
    SetSlice(labels, active_elm_start_index(labels),
             last_label_for_active_elm_in_pre_elm_signal(labels) + 2, 1)

\* labels after labels[active_elm_start_index : last_label+1] = 1
extended_labels(labels) ==
    SetSlice(labels, active_elm_start_index(labels),
             last_label_for_active_elm_in_pre_elm_signal(labels) + 1, 1)

\* The statement "assert a[i] == v" of source line ln: IndexError when i is
\* out of range, AssertionError when the value differs, <<>> when it passes.
AssertAt(a, i, v, ln) ==
    IF ~PyIdxOK(a, i) THEN <<"IndexError", ln>>
    ELSE IF At(a, i) /= v THEN <<"AssertionError", ln>> ELSE <<>>

\* first non-empty outcome of a list of checks, in program order
RECURSIVE FirstErr(_)
FirstErr(cs) ==
    IF cs = <<>> THEN <<>>
    ELSE IF Head(cs) /= <<>> THEN Head(cs) ELSE FirstErr(Tail(cs))

\* the two label assertions before the mask is written (lines 434-435)
boundary_asserts(labels) ==
    LET t == largest_t0_index_for_pre_elm_period(labels)
    IN  FirstErr(<<AssertAt(labels, t + (signal_window_size - 1), 0, 434),
                   AssertAt(labels, t + (signal_window_size - 1) + 1, 1, 435)>>)

\* the two mask assertions (lines 438-439)
mask_asserts(labels) ==
    LET t == largest_t0_index_for_pre_elm_period(labels)
    IN  FirstErr(<<AssertAt(valid_t0(labels), t, 1, 438),
                   AssertAt(valid_t0(labels), t + 1, 0, 439)>>)

\* variant: the check after label extension is missing
extension_assert_Missing(labels) == <<>>

\* the assertion after label extension (line 447)
extension_assert(labels) ==
    AssertAt(extended_labels(labels),
             last_label_for_active_elm_in_pre_elm_signal(labels), 1, 447)

\* variant: an event without an active label takes the early return
event_outcome_NoActiveReturns(labels) ==
    IF active_elm_indices(labels) = {} THEN <<"None">>
    ELSE IF largest_t0_index_for_pre_elm_period(labels) < 0 THEN <<"None">>
    ELSE LET e == FirstErr(<<boundary_asserts(labels), mask_asserts(labels),
                             extension_assert(labels)>>)
         IN  IF e /= <<>> THEN e ELSE <<"ok">>

\* What one loop iteration does with the labels it read:
\* <<exception, line>>: the exception that ends the build,
\* <<"None">>: the early return of line 433, <<"ok">>: the event is packaged.
event_outcome(labels) ==
    IF active_elm_indices(labels) = {} THEN <<"IndexError", 424>>
    ELSE IF largest_t0_index_for_pre_elm_period(labels) < 0 THEN <<"None">>
    ELSE LET e == FirstErr(<<boundary_asserts(labels), mask_asserts(labels),
                             extension_assert(labels)>>)
         IN  IF e /= <<>> THEN e ELSE <<"ok">>

\* variant: the offset is last_index instead of last_index + 1
next_window_start_LastIndex(packaged) == Len(packaged) - 1

\* the offset appended to packaged_window_start for a further event:
\* last_index + 1 with last_index = packaged_labels.size - 1 (lines 454-458)
next_window_start(packaged) == (Len(packaged) - 1) + 1

\* the balancer's counts when they are not studied alone
BalancerIdle ==
    [stage |-> "idle", n_active_elm |-> 0, n_inactive_elm |-> 0,
     oversample_factor |-> 0, n_active_before |-> 0, applications |-> 0]

\* the data-loader workers that call ELM_Dataset.__getitem__
Workers == {"w1", "w2"}

\* a worker that is not inside __getitem__ and has returned nothing yet
FetchIdle ==
    [at |-> "idle", idx |-> 0, time_idx |-> 0, signal_window |-> <<>>,
     result |-> <<>>]

\* the other programs when they are not the one studied
Idle == [at |-> "idle"]
OthersIdle ==
    /\ split = Idle
    /\ trainer = Idle
    /\ loop = Idle
    /\ data = Idle
    /\ unproc = Idle

\* _preprocess_data, the balancer and the dataset when another program is
\* the one studied
PipelineIdle ==
    /\ signal_window_size = 1
    /\ label_look_ahead = 1
    /\ oversample_active_elm = FALSE
    /\ shuffle_indices = FALSE
    /\ n_elms = 0
    /\ elm_pos = 0
    /\ pc = "idle"
    /\ err = <<>>
    /\ packaged_signals = <<>>
    /\ packaged_is_none = TRUE
    /\ packaged_labels = <<>>
    /\ packaged_valid_t0 = <<>>
    /\ packaged_window_start = <<>>
    /\ packaged_valid_t0_indices = <<>>
    /\ src_labels = <<>>
    /\ last_read = <<>>
    /\ balancer = BalancerIdle
    /\ fetch = [w \in Workers |-> FetchIdle]

\* the variables of _preprocess_data, the balancer and the dataset
pipeline_vars ==
    <<signal_window_size, label_look_ahead, oversample_active_elm,
      shuffle_indices, n_elms, elm_pos, pc, err, packaged_signals,
      packaged_is_none, packaged_labels, packaged_valid_t0,
      packaged_window_start, packaged_valid_t0_indices, src_labels,
      last_read, balancer, fetch>>

(* ---------------------- specification ---------------------------------- *)
Init ==
    /\ signal_window_size \in 0..MaxW
    /\ label_look_ahead \in 0..MaxL
    /\ oversample_active_elm \in BOOLEAN
    /\ shuffle_indices \in BOOLEAN
    /\ n_elms \in 0..MaxEvents
    /\ elm_pos = 0
    /\ pc = "loop"
    /\ err = <<>>
    /\ packaged_signals = <<>>
    /\ packaged_is_none = TRUE
    /\ packaged_labels = <<>>
    /\ packaged_valid_t0 = <<>>
    /\ packaged_window_start = <<>>
    /\ packaged_valid_t0_indices = <<>>
    /\ src_labels = <<>>
    /\ last_read = <<>>
    /\ balancer = BalancerIdle
    /\ fetch = [w \in Workers |-> FetchIdle]
    /\ OthersIdle

(* -------------- after the loop, lines 463-533 -------------------------- *)
\* np.arange(valid.size)[valid == 1]
valid_t0_indices(valid) ==
    SelectSeq([k \in 1..Len(valid) |-> k - 1], LAMBDA i : valid[i + 1] = 1)

\* index of the look-ahead label of origin t0
label_index_for_t0(t0) == t0 + (signal_window_size - 1) + label_look_ahead

\* packaged_label_indices_for_valid_t0
label_indices_for(t0s) == [k \in 1..Len(t0s) |-> label_index_for_t0(t0s[k])]

\* labels[indices] (fancy indexing), defined when every index is in range
labels_at(labels, idxs) == [k \in 1..Len(idxs) |-> At(labels, idxs[k])]

n_active_elm(lbls) == count_nonzero(lbls)
n_inactive_elm(lbls) == count_nonzero([k \in 1..Len(lbls) |-> lbls[k] - 1])

\* active_elm_fraction < min_active_elm_fraction, with
\* min_active_elm_fraction = 0.2 = 1/5; na + ni > 0
fraction_below_min(na, ni) == 5 * na < na + ni

\* The pairs <<na, ni>> with 1 <= na <= 12 and 0 <= ni <= 1000 for which
\* the double arithmetic of  int(0.2 * ni / (na * (1 - 0.2)))  gives one
\* less than the exact quotient ni // (4 * na): 0.2 and 1 - 0.2 are not
\* exact in binary, and when ni is a multiple of 4 * na the rounded quotient
\* can fall just below the integer (0.2 * 36 / (3 * 0.8) = 2.9999999999999996).
\* For every other pair of that range the two agree.
DoubleFloorShort ==
    {<<1, 172>>, <<1, 324>>, <<1, 344>>, <<1, 364>>, <<1, 648>>,
     <<1, 668>>, <<1, 688>>, <<1, 708>>, <<1, 728>>, <<1, 748>>,
     <<2, 344>>, <<2, 648>>, <<2, 688>>, <<2, 728>>, <<3, 36>>, <<3, 60>>,
     <<3, 72>>, <<3, 84>>, <<3, 120>>, <<3, 144>>, <<3, 168>>, <<3, 180>>,
     <<3, 228>>, <<3, 240>>, <<3, 276>>, <<3, 288>>, <<3, 300>>,
     <<3, 324>>, <<3, 336>>, <<3, 360>>, <<3, 372>>, <<3, 396>>,
     <<3, 420>>, <<3, 456>>, <<3, 480>>, <<3, 492>>, <<3, 516>>,
     <<3, 540>>, <<3, 552>>, <<3, 576>>, <<3, 588>>, <<3, 600>>,
     <<3, 612>>, <<3, 636>>, <<3, 648>>, <<3, 660>>, <<3, 672>>,
     <<3, 684>>, <<3, 708>>, <<3, 720>>, <<3, 732>>, <<3, 744>>,
     <<3, 780>>, <<3, 792>>, <<3, 840>>, <<3, 852>>, <<3, 900>>,
     <<3, 912>>, <<3, 960>>, <<3, 972>>, <<3, 984>>, <<4, 688>>, <<6, 72>>,
     <<6, 120>>, <<6, 144>>, <<6, 168>>, <<6, 240>>, <<6, 288>>,
     <<6, 336>>, <<6, 360>>, <<6, 456>>, <<6, 480>>, <<6, 552>>,
     <<6, 576>>, <<6, 600>>, <<6, 648>>, <<6, 672>>, <<6, 720>>,
     <<6, 744>>, <<6, 792>>, <<6, 840>>, <<6, 912>>, <<6, 960>>,
     <<6, 984>>, <<7, 140>>, <<7, 280>>, <<7, 364>>, <<7, 420>>,
     <<7, 560>>, <<7, 700>>, <<7, 728>>, <<7, 840>>, <<11, 660>>,
     <<11, 748>>, <<12, 144>>, <<12, 240>>, <<12, 288>>, <<12, 336>>,
     <<12, 480>>, <<12, 576>>, <<12, 672>>, <<12, 720>>, <<12, 912>>,
     <<12, 960>>}

\* variant: a fixed factor instead of the one computed from the counts
oversample_factor_Fixed(na, ni) == 2

\* variant: the factor without the + 1
oversample_factor_NoPlusOne(na, ni) == ni \div (4 * na)

\* int(0.2 * ni / (na * (1 - 0.2))) + 1 as the doubles of line 482 compute
\* it, for 1 <= na <= 12 and 0 <= ni <= 1000
oversample_factor(na, ni) ==
    IF <<na, ni>> \in DoubleFloorShort
    THEN ((ni \div (4 * na)) - 1) + 1
    ELSE (ni \div (4 * na)) + 1

\* valid origins whose look-ahead label is 1, in order (lines 485-492)
active_elm_valid_t0_indices(labels, t0s) ==
    SelectSeq(t0s, LAMBDA t0 : At(labels, label_index_for_t0(t0)) = 1)

\* variant: the block ignores oversample_active_elm
oversampled_indices_IgnoreFlag(labels, t0s, na, ni) ==
    IF fraction_below_min(na, ni)
    THEN t0s \o Repeat(active_elm_valid_t0_indices(labels, t0s),
                       oversample_factor(na, ni) - 1)
    ELSE t0s

\* variant: the loop of line 493 runs oversample_factor times
oversampled_indices_ExtraCopy(labels, t0s, na, ni) ==
    IF oversample_active_elm /\ fraction_below_min(na, ni)
    THEN t0s \o Repeat(active_elm_valid_t0_indices(labels, t0s),
                       oversample_factor(na, ni))
    ELSE t0s

\* the sample indices after the oversampling block (lines 481-497)
oversampled_indices(labels, t0s, na, ni) ==
    IF oversample_active_elm /\ fraction_below_min(na, ni)
    THEN t0s \o Repeat(active_elm_valid_t0_indices(labels, t0s),
                       oversample_factor(na, ni) - 1)
    ELSE t0s

\* exception raised by the code after the loop, <<>> if it returns
finish_outcome ==
    IF packaged_is_none THEN <<"AttributeError", 464>>
    ELSE LET t0s  == valid_t0_indices(packaged_valid_t0)
             idxs == label_indices_for(t0s)
         IN  IF \E k \in 1..Len(idxs) : ~PyIdxOK(packaged_labels, idxs[k])
             THEN <<"IndexError", 472>>
             ELSE LET lbls == labels_at(packaged_labels, idxs)
                      na   == n_active_elm(lbls)
                      ni   == n_inactive_elm(lbls)
                  IN  IF na + ni = 0 THEN <<"ZeroDivisionError", 475>>
                      ELSE IF oversample_active_elm
                              /\ fraction_below_min(na, ni) /\ na = 0
                           THEN <<"ZeroDivisionError", 482>>
                           ELSE <<>>

\* the sample indices before the shuffle
unshuffled_indices ==
    LET t0s  == valid_t0_indices(packaged_valid_t0)
        lbls == labels_at(packaged_labels, label_indices_for(t0s))
    IN  oversampled_indices(packaged_labels, t0s,
                            n_active_elm(lbls), n_inactive_elm(lbls))

\* the results np.random.shuffle can leave: every rearrangement
shuffles(s) == {[k \in 1..Len(s) |-> s[p[k]]] : p \in Permutations(1..Len(s))}

(* ----------------------------- actions --------------------------------- *)
\* One iteration of the for loop, lines 412-461.
ProcessEvent ==
    /\ pc = "loop"
    /\ elm_pos < n_elms
    /\ \E labels \in EventLabels :
        /\ Len(packaged_labels) + Len(labels) <= MaxTimeline
        /\ shuffle_indices => Len(packaged_labels) + Len(labels) <= MaxShuffleLen
        /\ elm_pos' = elm_pos + 1
        /\ last_read' = labels
        /\ LET out == event_outcome(labels)
           IN  CASE out = <<"ok">> ->
                     /\ packaged_window_start' =
                            IF packaged_is_none THEN <<0>>
                            ELSE Append(packaged_window_start,
                                        next_window_start(packaged_labels))
                     /\ packaged_valid_t0' = packaged_valid_t0 \o valid_t0(labels)
                     /\ packaged_signals' =
                            packaged_signals
                            \o EventSignals(elm_pos + 1, Len(labels))
                     /\ packaged_labels' = packaged_labels \o extended_labels(labels)
                     /\ packaged_is_none' = FALSE
                     /\ src_labels' = Append(src_labels, labels)
                     /\ UNCHANGED <<pc, err>>
                 [] out = <<"None">> ->
                     /\ pc' = "returned_none"
                     /\ UNCHANGED <<err, packaged_window_start,
                                    packaged_valid_t0, packaged_signals,
                                    packaged_labels, packaged_is_none,
                                    src_labels>>
                 [] OTHER ->
                     /\ pc' = "raised"
                     /\ err' = out
                     /\ UNCHANGED <<packaged_window_start, packaged_valid_t0,
                                    packaged_signals, packaged_labels,
                                    packaged_is_none, src_labels>>
    /\ UNCHANGED <<signal_window_size, label_look_ahead, oversample_active_elm,
                   shuffle_indices, n_elms, packaged_valid_t0_indices, balancer,
                   fetch>>
    /\ UNCHANGED other_programs

\* The code after the loop, lines 463-533.
Finish ==
    /\ pc = "loop"
    /\ elm_pos = n_elms
    /\ IF finish_outcome /= <<>>
       THEN /\ pc' = "raised"
            /\ err' = finish_outcome
            /\ UNCHANGED packaged_valid_t0_indices
       ELSE /\ pc' = "returned"
            /\ err' = <<>>
            /\ IF shuffle_indices
               THEN packaged_valid_t0_indices' \in shuffles(unshuffled_indices)
               ELSE packaged_valid_t0_indices' = unshuffled_indices
    /\ UNCHANGED <<signal_window_size, label_look_ahead, oversample_active_elm,
                   shuffle_indices, n_elms, elm_pos, packaged_signals,
                   packaged_is_none, packaged_labels, packaged_valid_t0,
                   packaged_window_start, src_labels, last_read, balancer,
                   fetch>>
    /\ UNCHANGED other_programs

Next == ProcessEvent \/ Finish

Spec == Init /\ [][Next]_vars

(* ------- the counts of the class balancer alone, lines 473-506 --------- *)
\* The block is given n_active_elm and n_inactive_elm directly (the counts
\* of line 473-474 for some timeline) with oversample_active_elm = True.
BalancerCounts ==
    ((1..MaxNActive) \cup {10}) \X ((0..MaxNInactive) \cup {990})

BalancerInit ==
    /\ signal_window_size = 1
    /\ label_look_ahead = 1
    /\ oversample_active_elm = TRUE
    /\ shuffle_indices = FALSE
    /\ n_elms = 0
    /\ elm_pos = 0
    /\ pc = "counts"
    /\ err = <<>>
    /\ packaged_signals = <<>>
    /\ packaged_is_none = TRUE
    /\ packaged_labels = <<>>
    /\ packaged_valid_t0 = <<>>
    /\ packaged_window_start = <<>>
    /\ packaged_valid_t0_indices = <<>>
    /\ src_labels = <<>>
    /\ last_read = <<>>
    /\ \E c \in BalancerCounts :
           balancer = [stage |-> "counted", n_active_elm |-> c[1],
                       n_inactive_elm |-> c[2], oversample_factor |-> 0,
                       n_active_before |-> c[1], applications |-> 0]
    /\ fetch = [w \in Workers |-> FetchIdle]
    /\ OthersIdle

\* lines 481-506: the fraction is below 0.2, the factor is computed, the
\* copies are appended and the counts are taken again.  The block can be
\* applied again to the counts it leaves.
OversampleCounts ==
    /\ balancer.stage /= "idle"
    /\ balancer.applications < MaxApplications
    /\ oversample_active_elm
    /\ fraction_below_min(balancer.n_active_elm, balancer.n_inactive_elm)
    /\ LET f == oversample_factor(balancer.n_active_elm,
                                  balancer.n_inactive_elm)
       IN  balancer' = [stage |-> "oversampled",
                        n_active_elm |-> balancer.n_active_elm * f,
                        n_inactive_elm |-> balancer.n_inactive_elm,
                        oversample_factor |-> f,
                        n_active_before |-> balancer.n_active_elm,
                        applications |-> balancer.applications + 1]
    /\ UNCHANGED <<signal_window_size, label_look_ahead, oversample_active_elm,
                   shuffle_indices, n_elms, elm_pos, pc, err, packaged_signals,
                   packaged_is_none, packaged_labels, packaged_valid_t0,
                   packaged_window_start, packaged_valid_t0_indices,
                   src_labels, last_read, fetch>>
    /\ UNCHANGED other_programs

\* line 481 is false: the block is skipped
KeepCounts ==
    /\ balancer.stage /= "idle"
    /\ balancer.applications < MaxApplications
    /\ ~(oversample_active_elm
         /\ fraction_below_min(balancer.n_active_elm, balancer.n_inactive_elm))
    /\ balancer' = [balancer EXCEPT !.stage = "kept",
                                     !.n_active_before = balancer.n_active_elm,
                                     !.applications = @ + 1]
    /\ UNCHANGED <<signal_window_size, label_look_ahead, oversample_active_elm,
                   shuffle_indices, n_elms, elm_pos, pc, err, packaged_signals,
                   packaged_is_none, packaged_labels, packaged_valid_t0,
                   packaged_window_start, packaged_valid_t0_indices,
                   src_labels, last_read, fetch>>
    /\ UNCHANGED other_programs

BalancerNext == OversampleCounts \/ KeepCounts

BalancerSpec == BalancerInit /\ [][BalancerNext]_vars

(* ------- ELM_Dataset over the arrays a build returned, lines 20-58 ------ *)
\* _make_datasets hands the first four entries of the returned tuple and
\* W, L to ELM_Dataset: signals, labels, sample_indices, window_start are
\* packaged_signals, packaged_labels, packaged_valid_t0_indices and
\* packaged_window_start.

\* __len__: self.sample_indices.size
dataset_len == Len(packaged_valid_t0_indices)

\* a[lo:hi]
Slice(a, lo, hi) ==
    LET b == SliceBound(lo, Len(a))
        e == SliceBound(hi, Len(a))
    IN  [k \in 1..Max2(e - b, 0) |-> a[b + k]]

\* line 42: time_idx = self.sample_indices[idx]
getitem_time_idx(idx) == At(packaged_valid_t0_indices, idx)

\* variant: the slice ends one timestep early
getitem_signal_window_Short(time_idx) ==
    Slice(packaged_signals, time_idx, time_idx + signal_window_size - 1)

\* lines 44-46: self.signals[time_idx : time_idx + self.signal_window_size]
getitem_signal_window(time_idx) ==
    Slice(packaged_signals, time_idx, time_idx + signal_window_size)

\* variant: the label index without the - 1
getitem_label_index_NoMinusOne(time_idx) ==
    time_idx + signal_window_size + label_look_ahead

\* lines 51-54: the index of the label
getitem_label_index(time_idx) ==
    time_idx + signal_window_size + label_look_ahead - 1

\* the sampler of the data loader hands a worker an index in range(len)
ReadIndex(w) ==
    /\ pc = "returned"
    /\ dataset_len <= MaxFetchLen
    /\ fetch[w].at \in {"idle", "returned"}
    /\ \E idx \in 0..(dataset_len - 1) :
           fetch' = [fetch EXCEPT ![w] =
                        [at |-> "index", idx |-> idx,
                         time_idx |-> getitem_time_idx(idx),
                         signal_window |-> <<>>, result |-> <<>>]]
    /\ UNCHANGED <<signal_window_size, label_look_ahead, oversample_active_elm,
                   shuffle_indices, n_elms, elm_pos, pc, err, packaged_signals,
                   packaged_is_none, packaged_labels, packaged_valid_t0,
                   packaged_window_start, packaged_valid_t0_indices,
                   src_labels, last_read, balancer>>
    /\ UNCHANGED other_programs

\* lines 44-48
ReadWindow(w) ==
    /\ fetch[w].at = "index"
    /\ fetch' = [fetch EXCEPT ![w].at = "window",
                              ![w].signal_window =
                                  getitem_signal_window(fetch[w].time_idx)]
    /\ UNCHANGED <<signal_window_size, label_look_ahead, oversample_active_elm,
                   shuffle_indices, n_elms, elm_pos, pc, err, packaged_signals,
                   packaged_is_none, packaged_labels, packaged_valid_t0,
                   packaged_window_start, packaged_valid_t0_indices,
                   src_labels, last_read, balancer>>
    /\ UNCHANGED other_programs

\* lines 50-58
ReadLabel(w) ==
    /\ fetch[w].at = "window"
    /\ LET i == getitem_label_index(fetch[w].time_idx)
       IN  IF PyIdxOK(packaged_labels, i)
           THEN fetch' = [fetch EXCEPT ![w].at = "returned",
                                       ![w].result =
                                           <<fetch[w].signal_window,
                                             At(packaged_labels, i)>>]
           ELSE fetch' = [fetch EXCEPT ![w].at = "raised"]
    /\ UNCHANGED <<signal_window_size, label_look_ahead, oversample_active_elm,
                   shuffle_indices, n_elms, elm_pos, pc, err, packaged_signals,
                   packaged_is_none, packaged_labels, packaged_valid_t0,
                   packaged_window_start, packaged_valid_t0_indices,
                   src_labels, last_read, balancer>>
    /\ UNCHANGED other_programs

DatasetNext ==
    \/ ProcessEvent
    \/ Finish
    \/ \E w \in Workers : ReadIndex(w)
    \/ \E w \in Workers : ReadWindow(w)
    \/ \E w \in Workers : ReadLabel(w)

DatasetSpec == Init /\ [][DatasetNext]_vars

(* ------- _get_data, lines 360-378: the three event lists ---------------- *)
\* fraction_test and fraction_validation are given in hundredths; the data
\* file holds the events 1..n.
SplitPercents == {0, 10, 15, 29, 50, 60, 100}
SplitSizes == (0..MaxIds) \cup {100}

\* The pairs <<percent, size>> of SplitPercents and sizes up to 100 for which
\* the double product (percent/100) * size falls just below the whole
\* number it stands for, so that int() gives one less: 0.29 * 100 is
\* 28.999999999999996.  Below size 50 there is no such pair.
ProductShort == {<<29, 100>>}

\* int(fraction * elm_indices.size), lines 373-374
int_fraction_of(percent, size) ==
    IF <<percent, size>> \in ProductShort
    THEN ((percent * size) \div 100) - 1
    ELSE (percent * size) \div 100

\* the orders np.random.shuffle (line 369) is taken to leave: every order of
\* a short list, and the given and the reversed order of a longer one
shuffled_ids(ids) ==
    IF Len(ids) <= MaxShuffleLen THEN shuffles(ids)
    ELSE {ids, [k \in 1..Len(ids) |-> ids[Len(ids) + 1 - k]]}

\* elm_indices[:self.max_elms] if self.max_elms (lines 370-371); None is 0
limited_ids(ids, max_elms) ==
    IF max_elms /= 0 THEN Slice(ids, 0, max_elms) ELSE ids

\* variant: the second split point is n_validation_elms alone
np_split_NoSum(ids, n_test, n_validation) ==
    <<Slice(ids, 0, n_test), Slice(ids, n_test, n_validation),
      Slice(ids, n_validation, Len(ids))>>

\* np.split(elm_indices, [n_test_elms, n_test_elms + n_validation_elms])
np_split(ids, n_test, n_validation) ==
    <<Slice(ids, 0, n_test), Slice(ids, n_test, n_test + n_validation),
      Slice(ids, n_test + n_validation, Len(ids))>>

SplitInit ==
    /\ PipelineIdle
    /\ trainer = Idle
    /\ loop = Idle
    /\ data = Idle
    /\ unproc = Idle
    /\ \E n \in SplitSizes, m \in 0..(MaxIds + 1),
          ft \in SplitPercents, fv \in SplitPercents :
           split = [at |-> "read", file_ids |-> [k \in 1..n |-> k],
                    max_elms |-> m, fraction_test |-> ft,
                    fraction_validation |-> fv, elm_indices |-> <<>>,
                    test_elms |-> <<>>, validation_elms |-> <<>>,
                    training_elms |-> <<>>]

\* lines 369-378
ShuffleAndSplit ==
    /\ split.at = "read"
    /\ \E order \in shuffled_ids(split.file_ids) :
           LET ids   == limited_ids(order, split.max_elms)
               parts == np_split(ids,
                                 int_fraction_of(split.fraction_test, Len(ids)),
                                 int_fraction_of(split.fraction_validation,
                                                 Len(ids)))
           IN  split' = [split EXCEPT !.at = "split",
                                      !.elm_indices = ids,
                                      !.test_elms = parts[1],
                                      !.validation_elms = parts[2],
                                      !.training_elms = parts[3]]
    /\ UNCHANGED <<pipeline_vars, trainer, loop, data, unproc>>

SplitNext == ShuffleAndSplit

SplitSpec == SplitInit /\ [][SplitNext]_vars

(* ------- _train_epoch and evaluate, lines 189-252: the batch losses ----- *)
\* A batch loss is a whole number of loss units 0..MaxLoss; a mean is kept
\* as the pair <<sum, number of values>>.  phase is "train" (_train_epoch,
\* lines 195-222) or "evaluate" (evaluate, lines 228-252): both accumulate
\* the losses in the same way.
TrainerInit ==
    /\ PipelineIdle
    /\ split = Idle
    /\ loop = Idle
    /\ data = Idle
    /\ unproc = Idle
    /\ \E ph \in {"train", "evaluate"} :
           \* losses = np.array(0), lines 195 and 228
           trainer = [at |-> "batches", phase |-> ph, losses |-> <<0>>,
                      batch_losses |-> <<>>, mean |-> <<>>]

\* losses.mean()
losses_mean(losses) == <<SumSeq(losses), Len(losses)>>

\* one pass of the loop over the data loader: lines 196-221 and 231-249;
\* np.append(losses, loss) flattens the 0-d array and appends
Batch ==
    /\ trainer.at = "batches"
    /\ Len(trainer.batch_losses) < MaxBatches
    /\ \E loss \in 0..MaxLoss :
           trainer' = [trainer EXCEPT !.losses = Append(@, loss),
                                      !.batch_losses = Append(@, loss)]
    /\ UNCHANGED <<pipeline_vars, split, loop, data, unproc>>

\* lines 222 and 252
ReturnMean ==
    /\ trainer.at = "batches"
    /\ trainer' = [trainer EXCEPT !.at = "returned",
                                  !.mean = losses_mean(trainer.losses)]
    /\ UNCHANGED <<pipeline_vars, split, loop, data, unproc>>

TrainerNext == Batch \/ ReturnMean

TrainerSpec == TrainerInit /\ [][TrainerNext]_vars

(* ------- train_loop of src/train.py, lines 151-235 ---------------------- *)
\* An F1 score is a whole number of score units 0..MaxF1 (0 is 0.0).
\* f1_of_epoch is the history of the F1 of the epochs completed, saved the
\* set of epochs (1-based) in which torch.save ran.
TrainLoopInit ==
    /\ PipelineIdle
    /\ split = Idle
    /\ trainer = Idle
    /\ data = Idle
    /\ unproc = Idle
    /\ \E n \in 0..MaxEpochs, vae \in BOOLEAN, dry \in BOOLEAN :
           \* best_score = 0, line 152
           loop = [at |-> "epochs", n_epochs |-> n, is_vae |-> vae,
                   dry_run |-> dry, epoch |-> 0, best_score |-> 0,
                   f1_of_epoch |-> <<>>, saved |-> {}, err |-> <<>>]

\* lines 221-231 for the score f1 of epoch number e
scored(l, f1, e) ==
    IF f1 > l.best_score
    THEN [l EXCEPT !.best_score = f1,
                   !.saved = IF l.dry_run THEN @ ELSE @ \cup {e}]
    ELSE l

\* one pass of the loop of line 171 for a model that is not a VAE:
\* lines 172-235 with the F1 of line 213
Epoch ==
    /\ loop.at = "epochs"
    /\ loop.epoch < loop.n_epochs
    /\ ~loop.is_vae
    /\ \E f1 \in 0..MaxF1 :
           loop' = [scored(loop, f1, loop.epoch + 1) EXCEPT
                        !.epoch = @ + 1,
                        !.f1_of_epoch = Append(@, f1)]
    /\ UNCHANGED <<pipeline_vars, split, trainer, data, unproc>>

\* one pass for a VAE: f1 = -1 (line 208); roc_score is assigned at line
\* 210 only, so the log line 219 raises UnboundLocalError
EpochVAE ==
    /\ loop.at = "epochs"
    /\ loop.epoch < loop.n_epochs
    /\ loop.is_vae
    /\ loop' = [loop EXCEPT !.at = "raised",
                            !.err = <<"UnboundLocalError", 219>>]
    /\ UNCHANGED <<pipeline_vars, split, trainer, data, unproc>>

\* lines 237-253
EndOfEpochs ==
    /\ loop.at = "epochs"
    /\ loop.epoch = loop.n_epochs
    /\ loop' = [loop EXCEPT !.at = "returned"]
    /\ UNCHANGED <<pipeline_vars, split, trainer, data, unproc>>

TrainLoopNext == Epoch \/ EpochVAE \/ EndOfEpochs

TrainLoopSpec == TrainLoopInit /\ [][TrainLoopNext]_vars

(* ------- Data of src/src/data.py: get_data, lines 111-164, -------------- *)
(* ------- _get_valid_indices, 333-373, _oversample_data, 402-424 --------- *)
\* Labels are 0 or 1 (the code tests labels >= 0.5).  An index that can be
\* None is kept as <<>> (None) or <<v>>; elm_start_indices and
\* elm_stop_indices are None, a scalar or an array of such entries.
DataEventLabels == UNION {[1..k -> {0, 1}] : k \in 1..MaxDataLen}

IsNone == [kind |-> "None", items |-> <<>>]
Scalar(v) == [kind |-> "scalar", items |-> << <<v>> >>]

\* np.append(x, v) for x None, a scalar or an array: a flat array
np_append(x, v) ==
    [kind |-> "array",
     items |-> (IF x.kind = "None" THEN << <<>> >> ELSE x.items) \o << <<v>> >>]

\* lines 335-338: ones, with _valid_t0[-(W + L) + 1 :] = 0
data_valid_t0(labels, w, l) ==
    SetSlice(Const(Len(labels), 1), -(w + l) + 1, Len(labels), 0)

\* np.nonzero(_labels >= 0.5)[0], line 341
active_elm_events(labels) == {i \in 0..(Len(labels) - 1) : labels[i + 1] >= 1}
first_active(labels) ==
    CHOOSE i \in active_elm_events(labels) :
        \A j \in active_elm_events(labels) : i <= j
last_active(labels) ==
    CHOOSE i \in active_elm_events(labels) :
        \A j \in active_elm_events(labels) : j <= i

DataInit ==
    /\ PipelineIdle
    /\ split = Idle
    /\ trainer = Idle
    /\ loop = Idle
    /\ unproc = Idle
    /\ \E w \in 1..MaxW, l \in 0..MaxL, n \in 0..MaxDataEvents :
           \* lines 111-117
           data = [at |-> "events", W |-> w, L |-> l, n_events |-> n,
                   signals_is_none |-> TRUE, labels |-> <<>>,
                   valid_t0 |-> <<>>, window_start |-> <<>>,
                   elm_start |-> IsNone, elm_stop |-> IsNone,
                   src |-> <<>>, index_buffer |-> 0,
                   sample_indices |-> <<>>, err |-> <<>>]

\* one pass of the loop of line 126: the event is read and
\* _get_valid_indices (lines 333-373) is called with the arrays so far
GetValidIndices ==
    /\ data.at = "events"
    /\ Len(data.src) < data.n_events
    /\ \E labels \in DataEventLabels :
           IF active_elm_events(labels) = {}
           THEN data' = [data EXCEPT
                    !.at = "raised",
                    !.err = <<"IndexError",
                              IF data.signals_is_none THEN 346 ELSE 357>>]
           ELSE IF data.signals_is_none
           THEN data' = [data EXCEPT
                    !.signals_is_none = FALSE,
                    !.window_start = <<0>>,
                    \* lines 346-347: both assignments are to
                    \* elm_start_indices
                    !.elm_start = Scalar(last_active(labels)),
                    !.valid_t0 = data_valid_t0(labels, data.W, data.L),
                    !.labels = labels,
                    !.src = Append(@, labels)]
           ELSE LET last_index == Len(data.labels) - 1
                IN  data' = [data EXCEPT
                        !.window_start = Append(@, last_index + 1),
                        !.elm_start =
                            np_append(@, first_active(labels) + last_index + 1),
                        !.elm_stop =
                            np_append(@, last_active(labels) + last_index + 1),
                        !.valid_t0 =
                            @ \o data_valid_t0(labels, data.W, data.L),
                        !.labels = @ \o labels,
                        !.src = Append(@, labels)]
    /\ UNCHANGED <<pipeline_vars, split, trainer, loop, unproc>>

\* The pairs <<a, n>>, n <= 40, for which the doubles of
\* int((1 - a/n) / (a/n)) give one less than (n - a) div a
CountShort == {<<1, 20>>, <<2, 40>>}

\* lines 406-408
oversample_count(a, n) ==
    IF <<a, n>> \in CountShort THEN ((n - a) \div a) - 1 - 1
    ELSE ((n - a) \div a) - 1

\* np.arange(lo, hi)
arange(lo, hi) == [k \in 1..Max2(hi - lo, 0) |-> lo + k - 1]

\* the outcome of a call: the value returned, or the exception raised
Returns(v) == [ok |-> TRUE, val |-> v]
Raises(name, line) == [ok |-> FALSE, val |-> <<name, line>>]

\* the loop of lines 412-418 from pair k on
RECURSIVE oversample_windows(_, _, _, _, _, _, _)
oversample_windows(labels, starts, stops, k, buf, count, acc) ==
    IF k > Min2(Len(starts), Len(stops)) THEN Returns(acc)
    ELSE IF stops[k] = <<>> THEN Raises("TypeError", 413)
    ELSE LET i_start == IF starts[k] = <<>> THEN 0 ELSE starts[k][1]
             i_stop  == stops[k][1]
             period  == Slice(labels, i_start, i_stop + 1)
         IN  IF \E j \in 1..Len(period) : period[j] < 1
             THEN Raises("AssertionError", 413)
             ELSE IF count < 0 THEN Raises("ValueError", 417)
             ELSE oversample_windows(
                      labels, starts, stops, k + 1, buf, count,
                      acc \o Repeat(arange(i_start - buf, i_stop + buf), count))

\* _oversample_data, lines 402-424
oversample_data(labels, valid_indices, elm_start, elm_stop, buf) ==
    LET a == Cardinality(active_elm_events(labels))
    IN  IF Len(labels) = 0 THEN Raises("ZeroDivisionError", 406)
        ELSE IF a = 0 THEN Raises("ZeroDivisionError", 408)
        ELSE IF elm_start.kind /= "array" \/ elm_stop.kind /= "array"
             THEN Raises("TypeError", 412)
        ELSE LET r == oversample_windows(labels, elm_start.items,
                                         elm_stop.items, 1, buf,
                                         oversample_count(a, Len(labels)),
                                         valid_indices)
             IN  IF ~r.ok THEN r
                 ELSE IF \E j \in 1..Len(r.val) : ~PyIdxOK(labels, r.val[j])
                      THEN Raises("IndexError", 420)
                 ELSE IF Len(r.val) = 0 THEN Raises("ZeroDivisionError", 421)
                 ELSE r

\* the end of get_data, lines 156-164: the valid indices are listed and
\* _oversample_data is called with elm_start and elm_stop as the loop left
\* them and the default index_buffer
OversampleFromGetData ==
    /\ data.at = "events"
    /\ Len(data.src) = data.n_events
    /\ IF data.signals_is_none
       THEN data' = [data EXCEPT !.at = "raised",
                                 !.err = <<"AttributeError", 159>>]
       ELSE LET r == oversample_data(data.labels,
                                     valid_t0_indices(data.valid_t0),
                                     data.elm_start, data.elm_stop,
                                     IndexBufferDefault)
            IN  IF ~r.ok
                THEN data' = [data EXCEPT !.at = "raised", !.err = r.val,
                                          !.index_buffer = IndexBufferDefault]
                ELSE data' = [data EXCEPT !.at = "oversampled",
                                          !.sample_indices = r.val,
                                          !.index_buffer = IndexBufferDefault]
    /\ UNCHANGED <<pipeline_vars, split, trainer, loop, unproc>>

\* the arrays the docstring of _oversample_data (lines 390-393) asks for:
\* the flat index of the first and of the last active label of each event
documented_elm_start(src, window_start) ==
    [kind |-> "array",
     items |-> [e \in 1..Len(src) |-> <<first_active(src[e]) + window_start[e]>>]]
documented_elm_stop(src, window_start) ==
    [kind |-> "array",
     items |-> [e \in 1..Len(src) |-> <<last_active(src[e]) + window_start[e]>>]]

\* _oversample_data called on its own with the arguments its docstring
\* describes, for the timeline the loop built
OversampleAlone ==
    /\ data.at = "events"
    /\ Len(data.src) = data.n_events
    /\ ~data.signals_is_none
    /\ \E buf \in 0..MaxBuffer :
           LET r == oversample_data(
                        data.labels, valid_t0_indices(data.valid_t0),
                        documented_elm_start(data.src, data.window_start),
                        documented_elm_stop(data.src, data.window_start), buf)
           IN  IF ~r.ok
               THEN data' = [data EXCEPT !.at = "raised", !.err = r.val,
                                         !.index_buffer = buf]
               ELSE data' = [data EXCEPT !.at = "oversampled",
                                         !.sample_indices = r.val,
                                         !.index_buffer = buf]
    /\ UNCHANGED <<pipeline_vars, split, trainer, loop, unproc>>

DataNext == GetValidIndices \/ OversampleFromGetData \/ OversampleAlone

DataSpec == DataInit /\ [][DataNext]_vars

(* ------- UnprocessedData._preprocess_data, ------------------------------ *)
(* ------- src/elm_prediction/data_preprocessing/unprocessed_data.py ------ *)
\* An event is read as its number of labels and the index of its last
\* active label; the identifiers asked for are 1..n.  The timeline is kept
\* as its length and window_start.
UnprocEventLengths == {MinEventLength - 1, MinEventLength, MinEventLength + 1}

UnprocInit ==
    /\ PipelineIdle
    /\ split = Idle
    /\ trainer = Idle
    /\ loop = Idle
    /\ data = Idle
    /\ \E n \in 0..MaxDataEvents, t \in BOOLEAN, b \in 0..MaxTruncateBuffer :
           \* lines 38-47
           unproc = [at |-> "events", elm_indices |-> [k \in 1..n |-> k],
                     truncate_inputs |-> t, truncate_buffer |-> b,
                     pos |-> 0, labels_size |-> 0, window_start |-> <<>>,
                     laid |-> <<>>, returned_elm_indices |-> <<>>,
                     err |-> <<>>]

\* lines 71-75: _labels[:active_elm_indices[-1] + truncate_buffer]
truncated_length(len, last, truncate_inputs, truncate_buffer) ==
    IF truncate_inputs THEN Min2(len, last + truncate_buffer) ELSE len

\* BaseData._get_valid_indices for one event of n labels: the event is
\* laid at the end of the timeline and its offset joins window_start
lay_event(u, n) ==
    [u EXCEPT !.window_start = Append(@, u.labels_size),
              !.labels_size = @ + n]

\* one pass of the loop of line 51
PreprocessEvent ==
    /\ unproc.at = "events"
    /\ unproc.pos < Len(unproc.elm_indices)
    /\ \E len \in UnprocEventLengths :
         \E last \in {len - 2, len - 1} :
           LET n == truncated_length(len, last, unproc.truncate_inputs,
                                     unproc.truncate_buffer)
               next == [unproc EXCEPT !.pos = @ + 1]
           IN  IF n < MinEventLength
               THEN unproc' = next
               ELSE unproc' =
                        [lay_event(next, n) EXCEPT
                            !.laid = Append(@, unproc.elm_indices[unproc.pos + 1])]
    /\ UNCHANGED <<pipeline_vars, split, trainer, loop, data>>

\* lines 100-120: valid_t0 is still the list [] when no event was laid
PreprocessReturn ==
    /\ unproc.at = "events"
    /\ unproc.pos = Len(unproc.elm_indices)
    /\ IF unproc.window_start = <<>>
       THEN unproc' = [unproc EXCEPT !.at = "raised",
                                     !.err = <<"AttributeError", 100>>]
       ELSE unproc' = [unproc EXCEPT !.at = "returned",
                                     !.returned_elm_indices = unproc.elm_indices]
    /\ UNCHANGED <<pipeline_vars, split, trainer, loop, data>>

UnprocNext == PreprocessEvent \/ PreprocessReturn

UnprocSpec == UnprocInit /\ [][UnprocNext]_vars

(* ------- predict, src/elm_prediction/analyze.py, lines 74-185 ----------- *)
\* test_data is the timeline of 1..MaxDataEvents events, each with an
\* active label, with window_start the offset of each event.  The signal
\* of a timestep is kept as its flat position.
PredictEvents ==
    {l \in DataEventLabels : active_elm_events(l) /= {}}

RECURSIVE Flatten(_)
Flatten(ss) == IF ss = <<>> THEN <<>> ELSE Head(ss) \o Flatten(Tail(ss))

offsets(ss) == [e \in 1..Len(ss) |-> Len(Flatten(SubSeq(ss, 1, e - 1)))]

PredictInit ==
    /\ PipelineIdle
    /\ split = Idle
    /\ trainer = Idle
    /\ loop = Idle
    /\ data = Idle
    /\ \E n \in 1..MaxDataEvents :
         \E src \in [1..n -> PredictEvents] :
           \* lines 74-81
           unproc = [at |-> "predict", src |-> src,
                     signals |-> [k \in 1..Len(Flatten(src)) |-> k - 1],
                     labels |-> Flatten(src),
                     window_start |-> offsets(src),
                     elm_predictions |-> <<>>, err |-> <<>>]

\* one pass of the loop of line 83, as far as the segment it cuts
PredictSegment ==
    /\ unproc.at = "predict"
    /\ Len(unproc.elm_predictions) < Len(unproc.window_start)
    /\ LET i_elm == Len(unproc.elm_predictions)
           num_elms == Len(unproc.window_start)
           i_start == unproc.window_start[i_elm + 1]
           i_stop == IF i_elm < num_elms - 1
                     THEN unproc.window_start[i_elm + 2] - 1
                     ELSE Len(unproc.labels)
           elm_signals == Slice(unproc.signals, i_start, i_stop)
           elm_labels == Slice(unproc.labels, i_start, i_stop)
       IN  IF active_elm_events(elm_labels) = {}
           THEN unproc' = [unproc EXCEPT !.at = "raised",
                                         !.err = <<"IndexError", 94>>]
           ELSE unproc' = [unproc EXCEPT
                    !.elm_predictions =
                        Append(@, [signals |-> elm_signals,
                                   labels |-> elm_labels])]
    /\ UNCHANGED <<pipeline_vars, split, trainer, loop, data>>

PredictNext == PredictSegment

PredictSpec == PredictInit /\ [][PredictNext]_vars

(* ======================= properties ==================================== *)
W == signal_window_size
L == label_look_ahead
Returned == pc = "returned"

\* index of the first label equal to 1, stated independently of the code
OnsetOf(labels) ==
    CHOOSE i \in 0..(Len(labels) - 1) :
        labels[i + 1] = 1 /\ \A j \in 0..(i - 1) : labels[j + 1] /= 1
HasOnset(labels) == \E k \in 1..Len(labels) : labels[k] = 1

\* the packaged events: e-th event, its offset in the timeline
Packaged == 1..Len(src_labels)
OffsetOf(e) == packaged_window_start[e]

\* look-ahead target of origin t0 in the emitted timeline
TargetIndex(t0) == t0 + W + L - 1
TargetOf(t0) == At(packaged_labels, TargetIndex(t0))
NumActiveSamples ==
    Cardinality({k \in 1..Len(packaged_valid_t0_indices) :
                    TargetOf(packaged_valid_t0_indices[k]) = 1})
NumValidOrigins == count_nonzero(packaged_valid_t0)
NonDecreasing(s) == \A k \in 1..(Len(s) - 1) : s[k] <= s[k + 1]

\* the latest event read was packaged
LastPackaged ==
    /\ elm_pos > 0
    /\ Len(src_labels) = elm_pos
    /\ src_labels[elm_pos] = last_read

(* C1: in every completed build with W > 0 and L > 0, the look-ahead label
   index t0+W+L-1 of every emitted sample index t0 is inside the timeline
   and no event offset s satisfies t0 < s <= t0+W+L-1. *)
C1_LookAheadInsideEvent ==
    (Returned /\ W > 0 /\ L > 0) =>
        \A k \in 1..Len(packaged_valid_t0_indices) :
            LET t0 == packaged_valid_t0_indices[k]
            IN  /\ TargetIndex(t0) < Len(packaged_labels)
                /\ \A j \in 1..Len(packaged_window_start) :
                       ~(t0 < packaged_window_start[j]
                         /\ packaged_window_start[j] <= TargetIndex(t0))

\* two events, and a sample of the first event whose target is the last
\* timestep of that event
C1_Witness ==
    /\ Returned /\ W > 0 /\ L > 0
    /\ Len(packaged_window_start) = 2
    /\ \E k \in 1..Len(packaged_valid_t0_indices) :
           TargetIndex(packaged_valid_t0_indices[k]) = packaged_window_start[2] - 1

(* C2: after a completed build with oversample_active_elm = True, the
   fraction of emitted sample indices whose look-ahead target is 1 is at
   least 0.2 (5 * active >= total). *)
C2_ActiveFractionFloor ==
    (Returned /\ oversample_active_elm) =>
        5 * NumActiveSamples >= Len(packaged_valid_t0_indices)

\* the balancer appended copies
C2_Witness ==
    /\ Returned /\ oversample_active_elm /\ W > 0
    /\ Len(packaged_valid_t0_indices) > NumValidOrigins

(* C3 as stated: with shuffle_indices = False the emitted sample_indices
   are non-decreasing, for either value of oversample_active_elm. *)
C3_Original ==
    (Returned /\ ~shuffle_indices /\ W > 0 /\ L > 0) => NonDecreasing(packaged_valid_t0_indices)

(* C3 amended: with shuffle_indices = False the emitted sample_indices are
   non-decreasing when oversample_active_elm = False, or when the
   oversampling block appended no copy. *)
C3_OrderedWithoutCopies ==
    (/\ Returned /\ ~shuffle_indices
     /\ (~oversample_active_elm
         \/ Len(packaged_valid_t0_indices) = NumValidOrigins))
    => NonDecreasing(packaged_valid_t0_indices)

\* an ordered build whose active fraction is below 0.2 and is not oversampled
C3_Witness ==
    /\ Returned /\ ~shuffle_indices /\ ~oversample_active_elm
    /\ W > 0 /\ L > 0
    /\ 5 * NumActiveSamples < Len(packaged_valid_t0_indices)

(* C4: an event whose first active label has an index smaller than W is
   the only thing rejected: the build goes on (or has returned its tuple)
   and the timeline holds every other event read. *)
C4_OnlyThatEventRejected ==
    (elm_pos > 0 /\ L > 0 /\ HasOnset(last_read) /\ OnsetOf(last_read) < W) =>
        /\ pc \in {"loop", "returned"}
        /\ Len(src_labels) = elm_pos - 1
        /\ Len(packaged_labels) = SumSeq([e \in Packaged |-> Len(src_labels[e])])

(* C5 as stated: in every packaged event every label at the indices
   active_start .. active_start + L (inclusive) is 1. *)
C5_Original ==
    (W > 0 /\ L > 0) => \A e \in Packaged :
        LET ev == src_labels[e]
        IN  \A i \in OnsetOf(ev)..(OnsetOf(ev) + L) :
                i < Len(ev) => packaged_labels[OffsetOf(e) + i + 1] = 1

(* C5 amended: in every packaged event every index active_start ..
   active_start + L - 1 is inside the event and its label is 1 after
   extension, whatever the labels after onset were. *)
C5_ExtendedRange ==
    \A e \in Packaged :
        LET ev == src_labels[e]
        IN  \A i \in OnsetOf(ev)..(OnsetOf(ev) + L - 1) :
                /\ i < Len(ev)
                /\ packaged_labels[OffsetOf(e) + i + 1] = 1

\* a packaged event in which the extension turned a 0 into a 1
C5_Witness ==
    \E e \in Packaged :
        LET ev == src_labels[e]
        IN  \E i \in OnsetOf(ev)..(OnsetOf(ev) + L - 1) :
                ev[i + 1] = 0 /\ packaged_labels[OffsetOf(e) + i + 1] = 1

\* an event with active_start >= W whose index active_start + L - 1 exists
EventFits(labels) ==
    /\ HasOnset(labels)
    /\ OnsetOf(labels) >= W
    /\ OnsetOf(labels) + L - 1 < Len(labels)

(* C6 as stated: for W > 0 and L >= 0 (L = 0 included), an event with
   active_start >= W and active_start + L - 1 inside the event passes the
   check after extension; the build does not fail on it. *)
C6_Original ==
    (elm_pos > 0 /\ W > 0 /\ L >= 0 /\ EventFits(last_read)) => pc /= "raised"

(* C6 amended: for W > 0 and L >= 1, an event with active_start >= W and
   active_start + L - 1 inside the event passes the check after extension
   and is packaged; the build does not fail on it. *)
C6_ExtensionCheckPasses ==
    (elm_pos > 0 /\ W > 0 /\ L >= 1 /\ EventFits(last_read)) =>
        pc /= "raised" /\ LastPackaged

\* such an event whose label at active_start + L - 1 was 0 when read
C6_Witness ==
    /\ elm_pos > 0 /\ W > 0 /\ L >= 1 /\ EventFits(last_read)
    /\ last_read[OnsetOf(last_read) + L] = 0
    /\ LastPackaged

(* C7: a build with W <= 0 or L <= 0 is rejected before any event is
   processed: it reads no event and never returns a sample index set. *)
C7_RejectedBeforeEvents ==
    (W <= 0 \/ L <= 0) => (elm_pos = 0 /\ ~Returned)

(* C8: in every packaged event, origin t0 (relative to the event start) is
   marked valid iff 0 <= t0 <= active_start - W. *)
C8_OriginMask ==
    \A e \in Packaged :
        LET ev == src_labels[e]
        IN  \A t0 \in 0..(Len(ev) - 1) :
                (packaged_valid_t0[OffsetOf(e) + t0 + 1] = 1)
                    <=> (t0 <= OnsetOf(ev) - W)

\* an event with several valid origins, an active period and a tail
C8_Witness ==
    \E e \in Packaged :
        LET ev == src_labels[e]
        IN  /\ W > 0
            /\ OnsetOf(ev) - W >= 1
            /\ OnsetOf(ev) + 1 < Len(ev)
            /\ OffsetOf(e) > 0

(* C9: for every packaged event the labels as read are 0 on the window of
   the last valid origin t0* = active_start - W and 1 at t0* + W; and with
   W > 0 no event with active_start >= W fails one of the two boundary
   assertions (lines 434, 435). *)
C9_PreOnsetWindowPure ==
    /\ \A e \in Packaged :
           LET ev == src_labels[e]
               t  == OnsetOf(ev) - W
           IN  /\ \A i \in t..(t + W - 1) : ev[i + 1] = 0
               /\ ev[t + W + 1] = 1
    /\ (elm_pos > 0 /\ W > 0 /\ HasOnset(last_read) /\ OnsetOf(last_read) >= W)
           => ~(pc = "raised" /\ err \in {<<"AssertionError", 434>>,
                                          <<"AssertionError", 435>>,
                                          <<"IndexError", 434>>,
                                          <<"IndexError", 435>>})

\* a second packaged event with a window of two labels, the last valid
\* origin not the first, and an inactive label after the onset
C9_Witness ==
    /\ LastPackaged /\ W = 2 /\ elm_pos = 2
    /\ OnsetOf(last_read) > W
    /\ Len(last_read) = OnsetOf(last_read) + 2
    /\ last_read[OnsetOf(last_read) + 2] = 0

(* C10: whenever events have been concatenated, window_start[0] = 0,
   window_start is strictly increasing, consecutive offsets differ by the
   length of the event between them, and the timeline has as many labels
   as the events together. *)
C10_WindowStart ==
    ~packaged_is_none =>
        /\ Len(packaged_window_start) = Len(src_labels)
        /\ packaged_window_start[1] = 0
        /\ \A e \in 1..(Len(packaged_window_start) - 1) :
               /\ packaged_window_start[e] < packaged_window_start[e + 1]
               /\ packaged_window_start[e + 1] - packaged_window_start[e]
                      = Len(src_labels[e])
        /\ Len(packaged_labels)
               = SumSeq([e \in Packaged |-> Len(src_labels[e])])

\* two events of different lengths
C10_Witness ==
    /\ Len(packaged_window_start) = 2
    /\ Len(src_labels[1]) /= Len(src_labels[2])
    /\ Returned

\* number of times x occurs in s
Count(s, x) == Cardinality({k \in 1..Len(s) : s[k] = x})

\* the valid origins of the emitted timeline, and their counts by target
ValidOrigins ==
    {t0 \in 0..(Len(packaged_valid_t0) - 1) : packaged_valid_t0[t0 + 1] = 1}
ActiveOrigins == {t0 \in ValidOrigins : TargetOf(t0) = 1}
InactiveOrigins == ValidOrigins \ ActiveOrigins
CopiesAppended == Len(packaged_valid_t0_indices) > NumValidOrigins

(* C11: the oversampling block (part of the code after the loop) leaves
   the packaged signals, labels and window_start as they were, and a
   completed build with oversample_active_elm = False emits every valid
   origin exactly once and nothing else. *)
C11_OnlyMultiplicityChanges ==
    /\ [][(pc = "loop" /\ pc' = "returned") =>
            /\ packaged_signals' = packaged_signals
            /\ packaged_labels' = packaged_labels
            /\ packaged_window_start' = packaged_window_start]_vars
    /\ []((Returned /\ ~oversample_active_elm) =>
            /\ \A t0 \in ValidOrigins : Count(packaged_valid_t0_indices, t0) = 1
            /\ \A k \in 1..Len(packaged_valid_t0_indices) :
                   packaged_valid_t0_indices[k] \in ValidOrigins)

\* a build of two events that is not oversampled although its active
\* fraction is below 0.2
C11_Witness ==
    /\ Returned /\ ~oversample_active_elm
    /\ Len(packaged_window_start) = 2
    /\ 5 * Cardinality(ActiveOrigins) < Cardinality(ValidOrigins)

(* C12 as stated: the factor computed is floor(n_inactive / (4 n_active))
   + 1 and is >= 1; for n_active = 10, n_inactive = 990 it is 25, giving
   250 active samples and a fraction >= 0.2. *)
C12_Original ==
    (balancer.stage = "oversampled" /\ balancer.applications = 1) =>
        /\ balancer.oversample_factor
               = (balancer.n_inactive_elm \div (4 * balancer.n_active_before)) + 1
        /\ balancer.oversample_factor >= 1

(* C12 amended: the factor computed is floor(n_inactive / (4 n_active)) + 1,
   or one less when n_inactive is a multiple of 4 n_active; it is >= 1; for
   n_active = 10, n_inactive = 990 it is 25, giving 250 active samples and
   a fraction >= 0.2. *)
C12_FactorUpToRounding ==
    (balancer.stage = "oversampled" /\ balancer.applications = 1) =>
        LET na == balancer.n_active_before
            ni == balancer.n_inactive_elm
            f  == balancer.oversample_factor
        IN  /\ \/ f = (ni \div (4 * na)) + 1
               \/ (ni % (4 * na) = 0 /\ f = ni \div (4 * na))
            /\ f >= 1
            /\ (na = 10 /\ ni = 990) =>
                   /\ f = 25
                   /\ balancer.n_active_elm = 250
                   /\ 5 * balancer.n_active_elm
                          >= balancer.n_active_elm + balancer.n_inactive_elm

C12_Witness ==
    /\ balancer.stage = "oversampled" /\ balancer.applications = 1
    /\ balancer.n_active_before = 10
    /\ balancer.n_inactive_elm = 990

(* C13: in a completed build with oversample_active_elm = True every valid
   origin with target 0 is emitted exactly once, every valid origin with
   target 1 exactly k times (k = 1 when the active fraction of the valid
   origins is >= 0.2, k = the oversample factor otherwise), and no other
   index is emitted. *)
C13_Multiplicities ==
    (Returned /\ oversample_active_elm) =>
        LET na == Cardinality(ActiveOrigins)
            ni == Cardinality(InactiveOrigins)
            k  == IF 5 * na >= na + ni THEN 1 ELSE oversample_factor(na, ni)
        IN  /\ \A t0 \in InactiveOrigins :
                   Count(packaged_valid_t0_indices, t0) = 1
            /\ \A t0 \in ActiveOrigins :
                   Count(packaged_valid_t0_indices, t0) = k
            /\ \A j \in 1..Len(packaged_valid_t0_indices) :
                   packaged_valid_t0_indices[j] \in ValidOrigins

\* copies were appended for the active origins of two events
C13_Witness ==
    /\ Returned /\ oversample_active_elm /\ CopiesAppended
    /\ Len(packaged_window_start) = 2
    /\ Cardinality(ActiveOrigins) >= 2

(* C14: the oversampling block applied to counts the block has already
   balanced finds the active fraction >= 0.2 and adds nothing: the counts
   after the second application are those after the first. *)
C14_BalancerIdempotent ==
    balancer.applications >= 2 =>
        /\ balancer.stage = "kept"
        /\ balancer.n_active_elm = balancer.n_active_before
        /\ 5 * balancer.n_active_elm
               >= balancer.n_active_elm + balancer.n_inactive_elm

\* the first application appended copies, the second was applied to its result
C14_Witness ==
    /\ balancer.applications = 2
    /\ balancer.oversample_factor >= 2
    /\ balancer.stage = "kept"

(* C16: an event without a label equal to 1 is never packaged: the build
   fails on it with the IndexError of line 424. *)
C16_NoActiveLabelFails ==
    /\ \A e \in Packaged : HasOnset(src_labels[e])
    /\ (elm_pos > 0 /\ ~HasOnset(last_read)) =>
           /\ pc = "raised"
           /\ err = <<"IndexError", 424>>
           /\ Len(src_labels) = elm_pos - 1

\* the second event of a build has no active label
C16_Witness ==
    /\ elm_pos = 2 /\ ~HasOnset(last_read) /\ Len(last_read) >= 2
    /\ Len(src_labels) = 1 /\ pc = "raised"

\* what the claims expect of a fetch of index idx, written on the arrays
ExpectedT0(idx) == packaged_valid_t0_indices[idx + 1]
ExpectedLabelIndex(idx) == ExpectedT0(idx) + W + L - 1
IsExpectedWindow(win, idx) ==
    /\ Len(win) = W
    /\ \A k \in 1..Len(win) :
           /\ ExpectedT0(idx) + k <= Len(packaged_signals)
           /\ win[k] = packaged_signals[ExpectedT0(idx) + k]
IsExpectedLabel(lbl, idx) ==
    LET i == ExpectedLabelIndex(idx)
        n == Len(packaged_labels)
    IN  /\ -n <= i /\ i < n
        /\ lbl = IF i >= 0 THEN packaged_labels[i + 1]
                 ELSE packaged_labels[n + i + 1]

(* C17: the length of the dataset is the number of sample indices; a fetch
   of idx in 0..len-1 never fails and returns signals[t0 : t0+W] and
   labels[t0+W+L-1] for t0 = sample_indices[idx]; the window has exactly W
   timesteps, consecutive ones of one event. *)
C17_DatasetFetch ==
    /\ dataset_len = Len(packaged_valid_t0_indices)
    /\ \A w \in Workers :
           /\ fetch[w].at /= "raised"
           /\ fetch[w].at /= "idle" =>
                  /\ fetch[w].idx \in 0..(dataset_len - 1)
                  /\ fetch[w].time_idx = ExpectedT0(fetch[w].idx)
           /\ fetch[w].at = "returned" =>
                  LET win == fetch[w].result[1]
                  IN  /\ IsExpectedWindow(win, fetch[w].idx)
                      /\ IsExpectedLabel(fetch[w].result[2], fetch[w].idx)
                      /\ \A k \in 1..Len(win) :
                             /\ win[k][1] = win[1][1]
                             /\ win[k][2] = win[1][2] + (k - 1)

\* a worker has fetched a window of two timesteps of the second event
C17_Witness ==
    \E w \in Workers :
        /\ fetch[w].at = "returned"
        /\ W = 2
        /\ Len(fetch[w].result[1]) = 2
        /\ fetch[w].result[1][1][1] = 2

(* C18: every step of a __getitem__ call, however the calls of the workers
   interleave, leaves signals, labels, sample_indices and window_start as
   they are, and a call that has returned holds the pair that a call for
   its index run alone returns. *)
C18_InterleavedFetches ==
    /\ [][fetch' /= fetch =>
            /\ packaged_signals' = packaged_signals
            /\ packaged_labels' = packaged_labels
            /\ packaged_valid_t0_indices' = packaged_valid_t0_indices
            /\ packaged_window_start' = packaged_window_start]_vars
    /\ [](\A w \in Workers :
            fetch[w].at = "returned" =>
                fetch[w].result =
                    <<Slice(packaged_signals, ExpectedT0(fetch[w].idx),
                            ExpectedT0(fetch[w].idx) + W),
                      At(packaged_labels, ExpectedLabelIndex(fetch[w].idx))>>)
    /\ [](\A v \in Workers : \A w \in Workers :
            (/\ fetch[v].at = "returned" /\ fetch[w].at = "returned"
             /\ fetch[v].idx = fetch[w].idx)
            => fetch[v].result = fetch[w].result)

\* one worker has returned while another is between its reads, for a
\* different index
C18_Witness ==
    /\ fetch["w1"].at = "returned"
    /\ fetch["w2"].at = "window"
    /\ fetch["w1"].idx /= fetch["w2"].idx
    /\ W >= 1

(* C19: in the emitted timeline every label outside the range
   active_start .. active_start + L - 1 of its event has the value read
   from the source event, and a label inside it differs from the source
   only by being 1. *)
C19_LabelsOutsideRangeKept ==
    \A e \in Packaged :
        LET ev == src_labels[e]
        IN  \A i \in 0..(Len(ev) - 1) :
                LET new == packaged_labels[OffsetOf(e) + i + 1]
                IN  IF OnsetOf(ev) <= i /\ i <= OnsetOf(ev) + L - 1
                    THEN new = ev[i + 1] \/ new = 1
                    ELSE new = ev[i + 1]

\* a second event whose label right after the extension range is 0
C19_Witness ==
    /\ Len(src_labels) = 2 /\ L >= 1 /\ W >= 1
    /\ LET ev == src_labels[2]
       IN  /\ OnsetOf(ev) + L < Len(ev)
           /\ ev[OnsetOf(ev) + L + 1] = 0

(* C20: within every packaged event the look-ahead targets of the valid
   origins, taken in increasing t0, are non-decreasing. *)
C20_MonotonicTargets ==
    \A e \in Packaged :
        LET ev == src_labels[e]
        IN  \A t0 \in 0..(Len(ev) - 1) : \A t1 \in 0..(Len(ev) - 1) :
                (/\ t0 < t1
                 /\ packaged_valid_t0[OffsetOf(e) + t0 + 1] = 1
                 /\ packaged_valid_t0[OffsetOf(e) + t1 + 1] = 1)
                => TargetOf(OffsetOf(e) + t0) <= TargetOf(OffsetOf(e) + t1)

\* an event whose labelled active period (one label) is shorter than L and
\* two of whose valid origins have target 1
C20_Witness ==
    \E e \in Packaged :
        LET ev == src_labels[e]
        IN  /\ W >= 1 /\ L = 2
            /\ OnsetOf(ev) - W >= 1
            /\ ev[OnsetOf(ev) + 2] = 0
            /\ TargetOf(OffsetOf(e) + OnsetOf(ev) - W - 1) = 1

(* C21: the packaged labels and signals have the same number of timesteps;
   the valid origins are at most that many, and the sample indices before
   the copies of the oversampling block list each valid origin once. *)
C21_LengthInvariant ==
    /\ Len(packaged_labels) = Len(packaged_signals)
    /\ NumValidOrigins <= Len(packaged_signals)
    /\ (Returned /\ ~shuffle_indices) =>
           LET before == SubSeq(packaged_valid_t0_indices, 1, NumValidOrigins)
           IN  /\ Len(before) = NumValidOrigins
               /\ Len(before) <= Len(packaged_signals)
               /\ \A t0 \in ValidOrigins : Count(before, t0) = 1
    /\ (Returned /\ ~oversample_active_elm) =>
           Len(packaged_valid_t0_indices) <= Len(packaged_signals)

\* an ordered build of two events to which copies were appended, L = 2
C21_Witness ==
    /\ Returned /\ ~shuffle_indices /\ CopiesAppended
    /\ Len(packaged_window_start) = 2
    /\ W = 1

\* number of valid origins of packaged event e whose target is 1
ActiveOriginsOf(e) ==
    Cardinality({t0 \in 0..(Len(src_labels[e]) - 1) :
                    /\ packaged_valid_t0[OffsetOf(e) + t0 + 1] = 1
                    /\ TargetIndex(OffsetOf(e) + t0) < Len(packaged_labels)
                    /\ TargetOf(OffsetOf(e) + t0) = 1})

(* C28: with W > 0 and L >= 1 every packaged event has exactly
   min(L, active_start - W + 1) >= 1 valid origins with target 1, a
   completed build has n_active >= 1, and no division by zero is raised. *)
C28_ActiveOriginsPerEvent ==
    (W > 0 /\ L >= 1) =>
        /\ \A e \in Packaged :
               /\ ActiveOriginsOf(e) = Min2(L, OnsetOf(src_labels[e]) - W + 1)
               /\ ActiveOriginsOf(e) >= 1
        /\ Returned => Cardinality(ActiveOrigins) >= 1
        /\ err = <<>> \/ err[1] /= "ZeroDivisionError"

\* a completed build with an event whose onset leaves room for one active
\* origin only, although L = 2
C28_Witness ==
    /\ Returned /\ W > 0 /\ L = 2
    /\ \E e \in Packaged : OnsetOf(src_labels[e]) - W + 1 = 1

\* the identifiers of a list
IdsOf(s) == {s[k] : k \in 1..Len(s)}
SplitDone == split.at = "split"
SplitIsPartition ==
    /\ IdsOf(split.test_elms) \cap IdsOf(split.validation_elms) = {}
    /\ IdsOf(split.test_elms) \cap IdsOf(split.training_elms) = {}
    /\ IdsOf(split.validation_elms) \cap IdsOf(split.training_elms) = {}
    /\ split.test_elms \o split.validation_elms \o split.training_elms
           = split.elm_indices
    /\ Cardinality(IdsOf(split.elm_indices)) = Len(split.elm_indices)

(* C30 as stated: the three lists are pairwise disjoint and together hold
   the N identifiers, with exactly floor(fraction_test * N) test events and
   floor(fraction_validation * N) validation events. *)
C30_Original ==
    SplitDone =>
        /\ SplitIsPartition
        /\ Len(split.test_elms)
               = (split.fraction_test * Len(split.elm_indices)) \div 100
        /\ Len(split.validation_elms)
               = (split.fraction_validation * Len(split.elm_indices)) \div 100

(* C30 amended: the three lists are pairwise disjoint and together hold the
   N identifiers in their order; the test list has floor(fraction_test * N)
   events, or one less when fraction_test * N is a whole number, and the
   validation list has the like count for fraction_validation, cut down to
   the N - n_test events that are left. *)
C30_PartitionWithTruncatedCounts ==
    SplitDone =>
        LET n  == Len(split.elm_indices)
            nt == Len(split.test_elms)
            nv == Len(split.validation_elms)
            qt == (split.fraction_test * n) \div 100
            qv == (split.fraction_validation * n) \div 100
        IN  /\ SplitIsPartition
            /\ \/ nt = qt
               \/ (nt = qt - 1 /\ (split.fraction_test * n) % 100 = 0)
            /\ \/ nv = Min2(qv, n - nt)
               \/ /\ nv = Min2(qv - 1, n - nt)
                  /\ (split.fraction_validation * n) % 100 = 0
            /\ (split.fraction_test + split.fraction_validation <= 100
                /\ n < 50) => (nt = qt /\ nv = qv)

\* a file limited by max_elms is split into three lists that are not empty
C30_Witness ==
    /\ SplitDone
    /\ split.max_elms /= 0
    /\ Len(split.elm_indices) < Len(split.file_ids)
    /\ split.test_elms /= <<>>
    /\ split.validation_elms /= <<>>
    /\ split.training_elms /= <<>>

(* C27: for an epoch of n >= 1 batches the value _train_epoch and evaluate
   return is (l_1 + ... + l_n) / n: the mean <<sum, count>> returned is
   equal, as a fraction, to the sum of the batch losses over n. *)
C27_AverageBatchLoss ==
    (trainer.at = "returned" /\ Len(trainer.batch_losses) >= 1) =>
        /\ trainer.mean[2] = Len(trainer.batch_losses)
        /\ trainer.mean[1] * Len(trainer.batch_losses)
               = SumSeq(trainer.batch_losses) * trainer.mean[2]

\* the largest entry of a sequence of numbers that is not empty
MaxOf(s) == CHOOSE m \in {s[k] : k \in 1..Len(s)} : \A k \in 1..Len(s) : s[k] <= m
FirstAt(s, v) == CHOOSE k \in 1..Len(s) : s[k] = v /\ \A j \in 1..(k - 1) : s[j] /= v

(* C29: in a run without dry_run, after every completed epoch best_score is
   the largest F1 of the epochs completed, a checkpoint was saved in the
   first epoch that reached it, and a checkpoint was saved in an epoch only
   if its F1 is greater than that of every earlier epoch. *)
C29_BestScoreAndCheckpoint ==
    (loop.at /= "idle" /\ ~loop.dry_run /\ loop.f1_of_epoch /= <<>>) =>
        LET h == loop.f1_of_epoch
        IN  /\ loop.best_score = MaxOf(h)
            /\ FirstAt(h, MaxOf(h)) \in loop.saved
            /\ \A e \in loop.saved : \A j \in 1..(e - 1) : h[j] < h[e]

(* ---- Data of src/src/data.py ------------------------------------------ *)
\* flat position of the first label of event e of the events read so far
DataOffset(e) == SumSeq([k \in 1..(e - 1) |-> Len(data.src[k])])

\* the event that holds flat position t
DataEventOf(t) ==
    CHOOSE e \in 1..Len(data.src) :
        DataOffset(e) <= t /\ t < DataOffset(e) + Len(data.src[e])

\* C24: in the mask built by Data._get_valid_indices, position t0 of an
\* event of length n is valid if and only if t0 + W + L - 1 <= n - 1, for
\* every W > 0, L >= 0 and n, W + L = 1 included.
C24_ValidIffWindowFits ==
    data.at = "events" =>
        \A e \in 1..Len(data.src) :
            \A t0 \in 0..(Len(data.src[e]) - 1) :
                (data.valid_t0[DataOffset(e) + t0 + 1] = 1)
                    <=> (t0 + data.W + data.L - 1 <= Len(data.src[e]) - 1)

\* C25: after Data._get_valid_indices was called for n >= 1 events in
\* sequence, elm_start_indices holds the n flat indices of the first active
\* label of each event and elm_stop_indices the n flat indices of the last
\* active label of each event, in event order, start <= stop.
C25_StartAndStopPerEvent ==
    (data.at = "events" /\ Len(data.src) >= 1) =>
        /\ data.elm_start =
               [kind |-> "array",
                items |-> [e \in 1..Len(data.src) |->
                              <<DataOffset(e) + first_active(data.src[e])>>]]
        /\ data.elm_stop =
               [kind |-> "array",
                items |-> [e \in 1..Len(data.src) |->
                              <<DataOffset(e) + last_active(data.src[e])>>]]

\* C26: every index t0 that Data._oversample_data returns, the ones added
\* around the active periods included, is an origin a chunk can be made
\* from: 0 <= t0 and t0 + W + L - 1 lies in the same event as t0.
C26_ReturnedIndicesAreOrigins ==
    data.at = "oversampled" =>
        \A j \in 1..Len(data.sample_indices) :
            LET t0 == data.sample_indices[j]
                last == t0 + data.W + data.L - 1
            IN  /\ 0 <= t0
                /\ last < Len(data.labels)
                /\ DataEventOf(t0) = DataEventOf(last)


(* ---- UnprocessedData._preprocess_data and predict --------------------- *)
\* C22: the identifier list returned as fifth element names exactly the
\* events laid into the timeline, in order: one entry per entry of
\* window_start, the i-th being the identifier of the event that begins at
\* window_start[i], also when events shorter than 2000 timesteps were
\* skipped.
C22_IdentifiersMatchOffsets ==
    unproc.at = "returned" =>
        /\ Len(unproc.returned_elm_indices) = Len(unproc.window_start)
        /\ unproc.returned_elm_indices = unproc.laid

\* C23: predict attributes to the i-th event the timesteps
\* window_start[i] .. window_start[i+1]-1 (to the end of the timeline for
\* the last event): each segment has the original length of its event and
\* the segments together cover every timestep once.
C23_SegmentsAreTheEvents ==
    unproc.at = "predict" =>
        \A i \in 1..Len(unproc.elm_predictions) :
            /\ unproc.elm_predictions[i].labels = unproc.src[i]
            /\ unproc.elm_predictions[i].signals =
                   [k \in 1..Len(unproc.src[i]) |->
                       unproc.window_start[i] + k - 1]

====
